---- MODULE Spec2Model ----
(***************************************************************************)
(* Model of the aws-lambda-layer launchers                                 *)
(*   src/aws_lambda_layer_cli/cli.py      (entry "aws_lambda_layer_cli")   *)
(*   src/scripts/pypi_resources/cli.py    (entry "pypi_resources")         *)
(*                                                                         *)
(* Python strings are modelled as sequences of one-character strings, so   *)
(* that replace / strip / slicing are computed character by character.     *)
(***************************************************************************)
EXTENDS Integers, Sequences, FiniteSets, TLC

VARIABLES entry, osname, PATH, fs, assets_dir, argv,
          pc, script_path, args, stdout, stderr, exitcode,
          checked, trace, spawned, cyg, returncode, call

vars == <<entry, osname, PATH, fs, assets_dir, argv,
          pc, script_path, args, stdout, stderr, exitcode,
          checked, trace, spawned, cyg, returncode, call>>

envvars == <<entry, osname, PATH, fs, assets_dir, argv>>

----------------------------------------------------------------------------
(* Bounds *)

\* longest argument vector sys.argv[1:] that is enumerated
MaxArgs == 2

\* longest argument vector enumerated for the WSL command string
MaxQuoteArgs == 2

\* most path components after the anchor enumerated for _windows_path_to_wsl
MaxComps == 3

----------------------------------------------------------------------------
(* String literals of the program *)

None == <<"<None>">>

S_uninstall  == <<"u","n","i","n","s","t","a","l","l">>
S_completion == <<"c","o","m","p","l","e","t","i","o","n">>
S_help       == <<"-","-","h","e","l","p">>
S_h          == <<"-","h">>
S_zsh        == <<"-","-","z","s","h">>
S_bashflag   == <<"-","-","b","a","s","h">>
S_x          == <<"x">>

S_bash       == <<"b","a","s","h">>
S_lc         == <<"-","l","c">>
S_cygpath    == <<"c","y","g","p","a","t","h">>
S_wslexe     == <<"w","s","l",".","e","x","e">>
S_wsl        == <<"w","s","l">>
S_mnt        == <<"/","m","n","t","/">>
S_bashsp     == <<"b","a","s","h"," ">>

S_assets        == <<"a","s","s","e","t","s">>
S_completiondir == <<"c","o","m","p","l","e","t","i","o","n">>
S_script_cli    == <<"a","w","s","-","l","a","m","b","d","a","-","l","a","y","e","r","-","c","l","i">>
S_script_pypi   == <<"a","w","s","-","l","a","m","b","d","a","-","l","a","y","e","r">>
S_uninstall_sh  == <<"u","n","i","n","s","t","a","l","l",".","s","h">>
S_comp_zsh      == <<"a","w","s","-","l","a","m","b","d","a","-","l","a","y","e","r","-",
                     "c","o","m","p","l","e","t","i","o","n",".","z","s","h">>
S_comp_bash     == <<"a","w","s","-","l","a","m","b","d","a","-","l","a","y","e","r","-",
                     "c","o","m","p","l","e","t","i","o","n",".","b","a","s","h">>

----------------------------------------------------------------------------
(* Python str / list primitives *)

UpperLetters == <<"A","B","C","D","E","F","G","H","I","J","K","L","M",
                  "N","O","P","Q","R","S","T","U","V","W","X","Y","Z">>
LowerLetters == <<"a","b","c","d","e","f","g","h","i","j","k","l","m",
                  "n","o","p","q","r","s","t","u","v","w","x","y","z">>

\* str.lower() on one character
Lower(c) ==
    IF \E i \in DOMAIN UpperLetters : UpperLetters[i] = c
    THEN LowerLetters[CHOOSE i \in DOMAIN UpperLetters : UpperLetters[i] = c]
    ELSE c

IsLetter(c) ==
    \/ \E i \in DOMAIN UpperLetters : UpperLetters[i] = c
    \/ \E i \in DOMAIN LowerLetters : LowerLetters[i] = c

\* x in list
In(x, s) == \E i \in DOMAIN s : s[i] = x

\* s[n:]
From(s, n) == IF n >= Len(s) THEN <<>> ELSE SubSeq(s, n + 1, Len(s))

\* s.replace(old, new) for a one-character old
RECURSIVE Replace(_, _, _)
Replace(s, old, new) ==
    IF s = <<>> THEN <<>>
    ELSE (IF Head(s) = old THEN new ELSE <<Head(s)>>) \o Replace(Tail(s), old, new)

\* s.lstrip(chars)
RECURSIVE LStrip(_, _)
LStrip(s, chars) ==
    IF s # <<>> /\ Head(s) \in chars THEN LStrip(Tail(s), chars) ELSE s

\* s.rstrip(chars)
RECURSIVE RStrip(_, _)
RStrip(s, chars) ==
    IF s # <<>> /\ s[Len(s)] \in chars THEN RStrip(SubSeq(s, 1, Len(s) - 1), chars) ELSE s

Whitespace == {" ", "\n", "\t", "\r"}

\* s.strip()
Strip(s) == RStrip(LStrip(s, Whitespace), Whitespace)

\* sep.join(parts)
RECURSIVE StrJoin(_, _)
StrJoin(sep, parts) ==
    IF parts = <<>> THEN <<>>
    ELSE IF Len(parts) = 1 THEN parts[1]
    ELSE parts[1] \o sep \o StrJoin(sep, Tail(parts))

\* truthiness of an Optional[str]
Truthy(s) == s # None /\ s # <<>>

----------------------------------------------------------------------------
(* pathlib *)

Sep(os) == IF os = "nt" THEN "\\" ELSE "/"

\* dir / name
PathJoin(os, dir, name) == dir \o <<Sep(os)>> \o name

\* index of the last separator of p (0 if none)
LastSep(os, p) ==
    IF \E i \in DOMAIN p : p[i] = Sep(os)
    THEN CHOOSE i \in DOMAIN p : p[i] = Sep(os) /\ \A j \in DOMAIN p : p[j] = Sep(os) => j <= i
    ELSE 0

\* p.parent
Parent(os, p) == SubSeq(p, 1, LastSep(os, p) - 1)

\* index of the n-th backslash of s at or after position from (0 if none)
RECURSIVE NthBackslash(_, _, _)
NthBackslash(s, from, n) ==
    IF from > Len(s) THEN 0
    ELSE IF s[from] = "\\"
         THEN (IF n = 1 THEN from ELSE NthBackslash(s, from + 1, n - 1))
         ELSE NthBackslash(s, from + 1, n)

\* PureWindowsPath(s).drive for a normalised path string s
Drive(s) ==
    IF Len(s) >= 2 /\ s[2] = ":" THEN SubSeq(s, 1, 2)
    ELSE IF Len(s) >= 2 /\ s[1] = "\\" /\ s[2] = "\\"
         THEN (IF NthBackslash(s, 3, 2) = 0 THEN s
               ELSE SubSeq(s, 1, NthBackslash(s, 3, 2) - 1))
         ELSE <<>>

----------------------------------------------------------------------------
(* Helpers of cli.py *)

\* variant: the drive letter is not lowercased
_windows_path_to_wsl_nolower(p) ==
    LET drive == Drive(p) IN
    IF drive = <<>> \/ Len(drive) < 2 \/ drive[2] # ":" THEN None
    ELSE LET rest == LStrip(From(p, 2), {"\\", "/"})
         IN  S_mnt \o <<drive[1]>> \o <<"/">> \o Replace(rest, "\\", <<"/">>)

\* _windows_path_to_wsl(p), p given by str(p)
_windows_path_to_wsl(p) ==
    LET drive == Drive(p) IN
    IF drive = <<>> \/ Len(drive) < 2 \/ drive[2] # ":" THEN None
    ELSE LET drive_letter == Lower(drive[1])
             rest == LStrip(From(p, 2), {"\\", "/"})
         IN  S_mnt \o <<drive_letter>> \o <<"/">> \o Replace(rest, "\\", <<"/">>)

\* variant: embedded single quotes are backslash-escaped inside the quotes
q_backslash(s) == <<"'">> \o Replace(s, "'", <<"\\", "'">>) \o <<"'">>

\* main.q(s)
q(s) == <<"'">> \o Replace(s, "'", <<"'", "\\", "'", "'">>) \o <<"'">>

\* [q(a) for a in args]
RECURSIVE QuoteAll(_)
QuoteAll(as) == IF as = <<>> THEN <<>> ELSE <<q(Head(as))>> \o QuoteAll(Tail(as))

\* cmd = "bash " + q(wsl_path) + (" " + " ".join(q(a) for a in args) if args else "")
WslCmd(wsl_path, as) ==
    S_bashsp \o q(wsl_path)
             \o (IF as # <<>> THEN <<" ">> \o StrJoin(<<" ">>, QuoteAll(as)) ELSE <<>>)

\* shutil.which(name): the resolved executable, or None
BinDir == <<"C",":","\\","b","i","n","\\">>
\* variant: every lookup succeeds
_which_always(path, name) == BinDir \o name
_which(path, name) == IF name \in path THEN BinDir \o name ELSE None

\* what the cygpath executable may answer for "-u p": exit status and stdout
CygUnix(p) ==
    IF Len(p) >= 2 /\ p[2] = ":"
    THEN <<"/", Lower(p[1])>> \o Replace(From(p, 2), "\\", <<"/">>)
    ELSE Replace(p, "\\", <<"/">>)
CygResults(p) ==
    [returncode : {0, 1}, stdout : {<<>>, <<"\n">>, CygUnix(p) \o <<"\n">>}]
NoCyg == [returncode |-> 0 - 1, stdout |-> None]

\* variant: the translation is never used
_cygpath_none(found, res) == None

\* value returned by _cygpath given whether cygpath was found and its result
_cygpath(found, res) ==
    IF ~found THEN None
    ELSE IF res.returncode # 0 THEN None
    ELSE Strip(res.stdout)

\* exit status the operating system records for SystemExit(n)
ExitStatus(os, n) == IF os = "nt" THEN n ELSE n % 256

\* variant: the arguments are forwarded in reverse order
BashCmd_reversed(script, as) == <<S_bash, script>> \o [i \in 1..Len(as) |-> as[Len(as) + 1 - i]]

\* ["bash", <script>, *args] of lines 148 and 154
BashCmd(script, as) == <<S_bash, script>> \o as

\* variant: only the long flag is recognised
WantsHelp_long(as) == In(S_help, as)

\* "--help" in args or "-h" in args   (lines 60 and 90)
WantsHelp(as) == In(S_help, as) \/ In(S_h, as)

\* variant: the child's status is dropped
_run_zero(rc) == 0

\* _run(cmd): value returned for a child whose returncode is rc
_run(rc) == rc

\* returncodes subprocess.run may report: exit codes, and -signal on POSIX
ChildReturnCodes(os) == IF os = "nt" THEN {0, 1, 7, 256} ELSE {0, 1, 7, 255, 0 - 9}

----------------------------------------------------------------------------
(* Environment of one run *)

Entries == {"aws_lambda_layer_cli", "pypi_resources"}

\* installed location of the assets directory, as str(assets_dir)
AssetsDirs(os) ==
    IF os = "nt"
    THEN { <<"C",":","\\","p","\\">> \o S_assets,
           <<"\\","\\","s","\\","h","\\","p","\\">> \o S_assets }
    ELSE { <<"/","p","/">> \o S_assets }

ScriptName(e) == IF e = "aws_lambda_layer_cli" THEN S_script_cli ELSE S_script_pypi

ScriptPath(e, os, dir)     == PathJoin(os, dir, ScriptName(e))
UninstallPath(os, dir)     == PathJoin(os, dir, S_uninstall_sh)
CompletionDir(os, dir)     == PathJoin(os, Parent(os, dir), S_completiondir)
ZshCompletion(os, dir)     == PathJoin(os, CompletionDir(os, dir), S_comp_zsh)
BashCompletion(os, dir)    == PathJoin(os, CompletionDir(os, dir), S_comp_bash)

\* files the package may or may not have installed
BundledFiles(e, os, dir) ==
    IF e = "aws_lambda_layer_cli"
    THEN {ScriptPath(e, os, dir), UninstallPath(os, dir),
          ZshCompletion(os, dir), BashCompletion(os, dir)}
    ELSE {ScriptPath(e, os, dir)}

Executables == {S_cygpath, S_bash, S_wslexe, S_wsl}

ArgTokens == {S_uninstall, S_completion, S_help, S_h, S_zsh, S_bashflag, S_x}

SeqsUpTo(S, n) == UNION { [1..k -> S] : k \in 0..n }

ArgVectors == SeqsUpTo(ArgTokens, MaxArgs)

NoCall == [fn |-> "none", done |-> FALSE, path |-> <<>>, args |-> <<>>, out |-> <<>>]

Init ==
    /\ entry \in Entries
    /\ osname \in {"posix", "nt"}
    /\ PATH \in SUBSET Executables
    /\ assets_dir \in AssetsDirs(osname)
    /\ fs \in SUBSET BundledFiles(entry, osname, assets_dir)
    /\ argv \in ArgVectors
    /\ pc = "start"
    /\ script_path = <<>>
    /\ args = <<>>
    /\ stdout = <<>>
    /\ stderr = <<>>
    /\ exitcode = 0
    /\ checked = {}
    /\ trace = <<>>
    /\ spawned = <<>>
    /\ cyg = NoCyg
    /\ returncode = 0
    /\ call = NoCall

----------------------------------------------------------------------------
(* main() *)

Msg(text, arg) == [text |-> text, arg |-> arg]

\* raise SystemExit(<str>): the message goes to stderr and the status is 1
Fatal(text, arg) ==
    /\ stderr' = Append(stderr, Msg(text, arg))
    /\ exitcode' = 1
    /\ pc' = "done"

\* variant: every integer exit reports success
Exit_zero(n) ==
    /\ exitcode' = 0
    /\ pc' = "done"

\* raise SystemExit(<int>)
Exit(n) ==
    /\ exitcode' = ExitStatus(osname, n)
    /\ pc' = "done"

\* lines 47-56: locate the bundled script, fail if it is missing, read argv
Locate ==
    /\ pc = "start"
    /\ LET sp == ScriptPath(entry, osname, assets_dir) IN
       /\ script_path' = sp
       /\ checked' = checked \cup {sp}
       /\ IF sp \notin fs
          THEN /\ Fatal("Packaged script missing", sp)
               /\ UNCHANGED args
          ELSE /\ args' = argv
               /\ pc' = IF entry = "aws_lambda_layer_cli" THEN "uninstall" ELSE "platform"
               /\ UNCHANGED <<stderr, exitcode>>
    /\ UNCHANGED <<envvars, stdout, trace, spawned, cyg, returncode, call>>

\* lines 58-83: the uninstall subcommand
Uninstall ==
    /\ pc = "uninstall"
    /\ IF args # <<>> /\ args[1] = S_uninstall
       THEN IF WantsHelp(args)
            THEN /\ stdout' = Append(stdout, "uninstall usage")
                 /\ Exit(0)
                 /\ UNCHANGED <<script_path, args, stderr, checked>>
            ELSE LET uninstall_script == UninstallPath(osname, assets_dir) IN
                 /\ checked' = checked \cup {uninstall_script}
                 /\ IF uninstall_script \notin fs
                    THEN /\ Fatal("Uninstall script missing", uninstall_script)
                         /\ UNCHANGED <<script_path, args, stdout>>
                    ELSE /\ script_path' = uninstall_script
                         /\ args' = Tail(args)
                         /\ pc' = "completion"
                         /\ UNCHANGED <<stdout, stderr, exitcode>>
       ELSE /\ pc' = "completion"
            /\ UNCHANGED <<script_path, args, stdout, stderr, exitcode, checked>>
    /\ UNCHANGED <<envvars, trace, spawned, cyg, returncode, call>>

\* lines 85-144: the completion subcommand
Completion ==
    /\ pc = "completion"
    /\ IF args # <<>> /\ args[1] = S_completion
       THEN LET has_zsh  == In(S_zsh, args)
                has_bash == In(S_bashflag, args)
                shell    == IF has_zsh THEN "zsh" ELSE IF has_bash THEN "bash" ELSE ""
                file     == IF shell = "zsh" THEN ZshCompletion(osname, assets_dir)
                                             ELSE BashCompletion(osname, assets_dir)
            IN  IF WantsHelp(args) \/ (~has_zsh /\ ~has_bash)
                THEN /\ stdout' = Append(stdout, "completion usage")
                     /\ Exit(0)
                     /\ UNCHANGED <<stderr, checked>>
                ELSE /\ checked' = checked \cup {file}
                     /\ IF file \in fs
                        THEN /\ stdout' = IF shell = "zsh"
                                          THEN stdout \o <<"zsh completion script", "zsh registration">>
                                          ELSE Append(stdout, "bash completion script")
                             /\ Exit(0)
                             /\ UNCHANGED stderr
                        ELSE /\ stderr' = Append(stderr,
                                    Msg(IF shell = "zsh" THEN "Completion script not found for zsh"
                                                         ELSE "Completion script not found for bash", <<>>))
                             /\ Exit(1)
                             /\ UNCHANGED stdout
       ELSE /\ pc' = "platform"
            /\ UNCHANGED <<stdout, stderr, exitcode, checked>>
    /\ UNCHANGED <<envvars, script_path, args, trace, spawned, cyg, returncode, call>>

\* variant: the launcher goes on to the WSL strategy after launching
Spawn_fallthrough(strategy, cmd, events) ==
    /\ spawned' = Append(spawned, [strategy |-> strategy, cmd |-> cmd])
    /\ trace' = trace \o events \o <<"spawn">>
    /\ pc' = "wsl"
    /\ UNCHANGED <<stderr, exitcode>>

\* subprocess.run(cmd) of _run, up to the point where the child is running
Spawn(strategy, cmd, events) ==
    /\ spawned' = Append(spawned, [strategy |-> strategy, cmd |-> cmd])
    /\ trace' = trace \o events \o <<"spawn">>
    /\ pc' = "running"
    /\ UNCHANGED <<stderr, exitcode>>

\* lines 146-148: not Windows
NativePosix ==
    /\ pc = "platform"
    /\ osname # "nt"
    /\ Spawn("NativePosix", BashCmd(script_path, args), <<>>)
    /\ UNCHANGED <<envvars, script_path, args, stdout, checked, cyg, returncode, call>>

\* lines 150-154 with _cygpath (34-41): Git Bash / MSYS / Cygwin
WindowsTranslatedPath ==
    /\ pc = "platform"
    /\ osname = "nt"
    /\ \E res \in CygResults(script_path) :
         LET found  == _which(PATH, S_cygpath) # None
             posix  == _cygpath(found, res)
             ev1    == <<"which cygpath">> \o (IF found THEN <<"run cygpath">> ELSE <<>>)
             ev2    == IF Truthy(posix) THEN <<"which bash">> ELSE <<>>
         IN  /\ cyg' = IF found THEN res ELSE NoCyg
             /\ IF Truthy(posix) /\ _which(PATH, S_bash) # None
                THEN Spawn("WindowsTranslatedPath", BashCmd(posix, args), ev1 \o ev2)
                ELSE /\ trace' = trace \o ev1 \o ev2
                     /\ pc' = "wsl"
                     /\ UNCHANGED <<spawned, stderr, exitcode>>
    /\ UNCHANGED <<envvars, script_path, args, stdout, checked, returncode, call>>

\* lines 156-167: WSL
WindowsWsl ==
    /\ pc = "wsl"
    /\ LET w1  == _which(PATH, S_wslexe)
           wsl == IF Truthy(w1) THEN w1 ELSE _which(PATH, S_wsl)
           ev  == <<"which wsl.exe">> \o (IF Truthy(w1) THEN <<>> ELSE <<"which wsl">>)
       IN  IF Truthy(wsl)
           THEN LET wsl_path == _windows_path_to_wsl(script_path) IN
                IF ~Truthy(wsl_path)
                THEN /\ Fatal("Unable to convert path for WSL", script_path)
                     /\ trace' = trace \o ev
                     /\ UNCHANGED spawned
                ELSE Spawn("WindowsWsl", <<wsl, S_bash, S_lc, WslCmd(wsl_path, args)>>, ev)
           ELSE /\ trace' = trace \o ev
                /\ pc' = "unavailable"
                /\ UNCHANGED <<spawned, stderr, exitcode>>
    /\ UNCHANGED <<envvars, script_path, args, stdout, checked, cyg, returncode, call>>

\* lines 169-171: no strategy
Unavailable ==
    /\ pc = "unavailable"
    /\ Fatal("No compatible bash found on Windows", <<>>)
    /\ UNCHANGED <<envvars, script_path, args, stdout, checked, trace, spawned, cyg,
                   returncode, call>>

\* _run (15-17) returning, and raise SystemExit(_run(...)) of lines 148, 154, 167
ChildExits ==
    /\ pc = "running"
    /\ \E rc \in ChildReturnCodes(osname) :
         /\ returncode' = rc
         /\ Exit(_run(rc))
    /\ trace' = Append(trace, "child exit")
    /\ UNCHANGED <<envvars, script_path, args, stdout, stderr, checked, spawned, cyg, call>>

Next ==
    \/ Locate
    \/ Uninstall
    \/ Completion
    \/ NativePosix
    \/ WindowsTranslatedPath
    \/ WindowsWsl
    \/ Unavailable
    \/ ChildExits

Spec == Init /\ [][Next]_vars

TypeOK ==
    /\ pc \in {"start", "uninstall", "completion", "platform", "wsl", "unavailable",
               "running", "done"}
    /\ Len(spawned) <= 1

----------------------------------------------------------------------------
(* _windows_path_to_wsl as a function of its argument *)

Frozen ==
    /\ entry = "aws_lambda_layer_cli"
    /\ osname = "nt"
    /\ PATH = {}
    /\ fs = {}
    /\ assets_dir = <<>>
    /\ argv = <<>>
    /\ pc = "done"
    /\ script_path = <<>>
    /\ args = <<>>
    /\ stdout = <<>>
    /\ stderr = <<>>
    /\ exitcode = 0
    /\ checked = {}
    /\ trace = <<>>
    /\ spawned = <<>>
    /\ cyg = NoCyg
    /\ returncode = 0

mainvars == <<envvars, pc, script_path, args, stdout, stderr, exitcode,
              checked, trace, spawned, cyg, returncode>>

\* anchors of an absolute Windows path: drive roots, a UNC share, a device path
WinAnchors ==
    { <<"C",":","\\">>, <<"d",":","\\">>,
      <<"\\","\\","s","\\","h","\\">>,
      <<"\\","\\","?","\\","C",":","\\">> }

WinNames == { <<"U","s","e","r","s">>, <<"m","e">>, <<"x">> }

\* str(p) of the absolute paths with at most MaxComps components
WinPaths ==
    { a \o StrJoin(<<"\\">>, cs) : a \in WinAnchors, cs \in SeqsUpTo(WinNames, MaxComps) }

InitPath ==
    /\ Frozen
    /\ \E p \in WinPaths :
         call = [fn |-> "_windows_path_to_wsl", done |-> FALSE, path |-> p,
                 args |-> <<>>, out |-> <<>>]

ConvertPath ==
    /\ call.fn = "_windows_path_to_wsl"
    /\ ~call.done
    /\ call' = [call EXCEPT !.done = TRUE, !.out = _windows_path_to_wsl(call.path)]
    /\ UNCHANGED mainvars

NextPath == ConvertPath

SpecPath == InitPath /\ [][NextPath]_vars

----------------------------------------------------------------------------
(* the WSL command string as a function of the path and the arguments *)

QuoteTokens ==
    { <<>>, <<"i","t","'","s">>, <<"'">>, <<"a"," ","b">>, <<"x">> }

QuotePaths ==
    { <<"/","m","n","t","/","c","/","p","/","s">>,
      <<"/","m","n","t","/","c","/","o","'","k","/","s">> }

InitQuote ==
    /\ Frozen
    /\ \E p \in QuotePaths, as \in SeqsUpTo(QuoteTokens, MaxQuoteArgs) :
         call = [fn |-> "WslCmd", done |-> FALSE, path |-> p, args |-> as, out |-> <<>>]

BuildWslCmd ==
    /\ call.fn = "WslCmd"
    /\ ~call.done
    /\ call' = [call EXCEPT !.done = TRUE, !.out = WslCmd(call.path, call.args)]
    /\ UNCHANGED mainvars

NextQuote == BuildWslCmd

SpecQuote == InitQuote /\ [][NextQuote]_vars

----------------------------------------------------------------------------
(* Properties of main() *)

IsCli         == entry = "aws_lambda_layer_cli"
TheScript     == ScriptPath(entry, osname, assets_dir)
TheUninstall  == UninstallPath(osname, assets_dir)
TheBashComp   == BashCompletion(osname, assets_dir)
WslPresent    == S_wslexe \in PATH \/ S_wsl \in PATH
NonBlank(s)   == \E i \in DOMAIN s : s[i] \notin Whitespace
Launched(strategy, cmd) == spawned = << [strategy |-> strategy, cmd |-> cmd] >>

\* C1: whenever a wrapped script was launched and returned an exit code, the
\* launcher has terminated with exactly that exit code.
C1_ExitCodeFidelity ==
    (pc = "done" /\ spawned # <<>> /\ returncode >= 0) => exitcode = returncode

C1_Witness ==
    /\ pc = "done"
    /\ spawned # <<>>
    /\ spawned[1].strategy = "WindowsWsl"
    /\ returncode = 7
    /\ exitcode = 7

\* C2 as stated: on a non-Windows platform every finished run, the bundled script
\* being installed, has made exactly one invocation ["bash", <bundled script>, *argv],
\* for any argv.
C2_AnyArgv ==
    (pc = "done" /\ osname # "nt" /\ TheScript \in fs)
        => Launched("NativePosix", <<S_bash, TheScript>> \o argv)

PassThrough ==
    \/ entry = "pypi_resources"
    \/ argv = <<>>
    \/ argv[1] \notin {S_uninstall, S_completion}

\* C2 amended: on a non-Windows platform, when the bundled script exists and
\* argv does not begin with a subcommand of the launcher (uninstall, completion),
\* every finished run has made exactly one invocation ["bash", <script>, *argv].
C2_NativePosix ==
    (pc = "done" /\ osname # "nt" /\ TheScript \in fs /\ PassThrough)
        => Launched("NativePosix", <<S_bash, TheScript>> \o argv)

C2_Witness ==
    /\ pc = "done"
    /\ osname # "nt"
    /\ IsCli
    /\ argv = <<S_x, S_help>>
    /\ Launched("NativePosix", <<S_bash, TheScript, S_x, S_help>>)

TranslatedOnly ==
    /\ Launched("WindowsTranslatedPath", <<S_bash, CygUnix(script_path)>> \o args)
    /\ ~In("which wsl.exe", trace)
    /\ ~In("which wsl", trace)

\* C3 as stated: on Windows, when cygpath and a WSL launcher are both present and
\* cygpath succeeded (zero exit, non-blank output), the finished run has launched
\* ["bash", <translated path>, *args] and has not touched the WSL launcher.
C3_TranslationWins ==
    (/\ pc = "done" /\ osname = "nt"
     /\ S_cygpath \in PATH /\ WslPresent
     /\ cyg.returncode = 0 /\ NonBlank(cyg.stdout))
        => TranslatedOnly

\* C3 amended: the same, provided bash is also resolvable on the search path.
C3_TranslationWinsWithBash ==
    (/\ pc = "done" /\ osname = "nt"
     /\ S_cygpath \in PATH /\ WslPresent
     /\ cyg.returncode = 0 /\ NonBlank(cyg.stdout)
     /\ S_bash \in PATH)
        => TranslatedOnly

C3_Witness ==
    /\ pc = "done"
    /\ S_cygpath \in PATH /\ S_wslexe \in PATH /\ S_bash \in PATH
    /\ cyg.returncode = 0
    /\ spawned # <<>>
    /\ spawned[1].strategy = "WindowsTranslatedPath"

UninstallHelp ==
    /\ IsCli
    /\ argv # <<>> /\ argv[1] = S_uninstall
    /\ (In(S_help, argv) \/ In(S_h, argv))

UsageOnly ==
    /\ stdout = <<"uninstall usage">>
    /\ stderr = <<>>
    /\ exitcode = 0
    /\ TheUninstall \notin checked
    /\ trace = <<>>
    /\ spawned = <<>>

\* C4 as stated: a finished run of `uninstall ... --help|-h` has printed the usage
\* text and exited 0 without checking the uninstall script, probing the platform
\* or spawning a child, whatever files are installed.
C4_HelpAnyAssets == (pc = "done" /\ UninstallHelp) => UsageOnly

\* C4 amended: the same, provided the bundled main script exists (whatever the
\* state of the uninstall script and of the completion assets).
C4_HelpWithScript == (pc = "done" /\ UninstallHelp /\ TheScript \in fs) => UsageOnly

C4_Witness ==
    /\ pc = "done"
    /\ argv = <<S_uninstall, S_h>>
    /\ TheUninstall \notin fs
    /\ stdout = <<"uninstall usage">>
    /\ exitcode = 0

\* C5: a finished run of `completion --bash` with the bash completion asset absent
\* has exited with code 1, written an error to stderr (the "not found for bash"
\* message when the main script exists), nothing to stdout, and spawned no child.
C5_CompletionMissing ==
    (pc = "done" /\ IsCli /\ argv = <<S_completion, S_bashflag>> /\ TheBashComp \notin fs)
        => /\ exitcode = 1
           /\ Len(stderr) = 1
           /\ (TheScript \in fs
                 => stderr = << Msg("Completion script not found for bash", <<>>) >>)
           /\ stdout = <<>>
           /\ spawned = <<>>
           /\ trace = <<>>

C5_Witness ==
    /\ pc = "done"
    /\ IsCli
    /\ argv = <<S_completion, S_bashflag>>
    /\ TheScript \in fs
    /\ TheBashComp \notin fs
    /\ exitcode = 1
    /\ stderr # <<>>

\* the path starts with <Letter>:\
HasDriveLetterPrefix(p) ==
    Len(p) >= 3 /\ IsLetter(p[1]) /\ p[2] = ":" /\ p[3] = "\\"

NoStrategy ==
    /\ pc = "done" /\ osname = "nt"
    /\ In("which cygpath", trace)
    /\ ~(S_cygpath \in PATH /\ cyg.returncode = 0 /\ NonBlank(cyg.stdout) /\ S_bash \in PATH)
    /\ (~WslPresent \/ ~HasDriveLetterPrefix(script_path))

\* C8 as stated: on Windows, when the translated-path strategy is not usable and
\* the WSL launcher is absent or the script path has no drive-letter prefix, the
\* run ends with the "install WSL or Git Bash" message as its only output and no
\* child was spawned.
C8_Unavailable ==
    NoStrategy
        => /\ stderr = << Msg("No compatible bash found on Windows", <<>>) >>
           /\ stdout = <<>>
           /\ spawned = <<>>

\* C8 amended: in the same situation no child is spawned and the only output is
\* one fatal message: "install WSL or Git Bash" when the WSL launcher is absent,
\* "Unable to convert path for WSL: <path>" when the launcher is present but the
\* script path has no drive-letter prefix.
C8_UnavailableOrUnconvertible ==
    NoStrategy
        => /\ stderr = << IF WslPresent
                          THEN Msg("Unable to convert path for WSL", script_path)
                          ELSE Msg("No compatible bash found on Windows", <<>>) >>
           /\ exitcode = 1
           /\ stdout = <<>>
           /\ spawned = <<>>

C8_Witness ==
    /\ pc = "done" /\ osname = "nt"
    /\ S_cygpath \in PATH /\ cyg.returncode = 1
    /\ ~WslPresent
    /\ stderr = << Msg("No compatible bash found on Windows", <<>>) >>

\* C9: a finished run whose argv begins with `uninstall`, has no --help/-h, and
\* finds both bundled scripts, has launched through the platform strategy a bash
\* invocation of the uninstall script with argv minus the leading `uninstall`
\* (or, on Windows, has ended with the fatal message of a strategy failure).
C9_UninstallDispatch ==
    (/\ pc = "done" /\ IsCli
     /\ argv # <<>> /\ argv[1] = S_uninstall
     /\ ~In(S_help, argv) /\ ~In(S_h, argv)
     /\ TheScript \in fs /\ TheUninstall \in fs)
        => \/ Launched("NativePosix", <<S_bash, TheUninstall>> \o Tail(argv))
           \/ Launched("WindowsTranslatedPath",
                       <<S_bash, CygUnix(TheUninstall)>> \o Tail(argv))
           \/ /\ Len(spawned) = 1
              /\ spawned[1].strategy = "WindowsWsl"
              /\ spawned[1].cmd[4] = WslCmd(_windows_path_to_wsl(TheUninstall), Tail(argv))
           \/ /\ osname = "nt"
              /\ spawned = <<>>
              /\ Len(stderr) = 1
              /\ stderr[1].text \in {"No compatible bash found on Windows",
                                     "Unable to convert path for WSL"}

EventOrder ==
    <<"which cygpath", "run cygpath", "which bash", "which wsl.exe", "which wsl",
      "spawn", "child exit">>
Rank(e) == CHOOSE i \in DOMAIN EventOrder : EventOrder[i] = e

\* C10: probes and launches happen in the fixed order NativePosix,
\* WindowsTranslatedPath, WindowsWsl, Unavailable; at most one child is launched;
\* nothing is probed on non-Windows, no WSL probe follows a successful translated
\* launch, nothing follows the launch but the child's exit, which ends the run.
C10_ShortCircuit ==
    /\ Len(spawned) <= 1
    /\ \A i, j \in DOMAIN trace : i < j => Rank(trace[i]) < Rank(trace[j])
    /\ osname # "nt" => \A i \in DOMAIN trace : trace[i] \in {"spawn", "child exit"}
    /\ spawned # <<>> =>
          /\ pc \in {"running", "done"}
          /\ In("spawn", trace)
          /\ (pc = "done" <=> trace[Len(trace)] = "child exit")
          /\ (spawned[1].strategy = "NativePosix") = (osname # "nt")
          /\ spawned[1].strategy = "WindowsTranslatedPath"
                => /\ ~In("which wsl.exe", trace) /\ ~In("which wsl", trace)
                   /\ In("which bash", trace)
          /\ spawned[1].strategy = "WindowsWsl"
                => In("which cygpath", trace) /\ In("which wsl.exe", trace)
    /\ In("No compatible bash found on Windows", [i \in DOMAIN stderr |-> stderr[i].text])
          => spawned = <<>> /\ In("which wsl", trace)

C10_Witness ==
    /\ pc = "done"
    /\ WslPresent
    /\ spawned # <<>>
    /\ spawned[1].strategy = "WindowsTranslatedPath"
    /\ trace = <<"which cygpath", "run cygpath", "which bash", "spawn", "child exit">>

----------------------------------------------------------------------------
(* Properties of _windows_path_to_wsl *)

\* the characters of p from position i on, each backslash turned into a slash
RECURSIVE Slashed(_, _)
Slashed(p, i) ==
    IF i > Len(p) THEN <<>>
    ELSE <<IF p[i] = "\\" THEN "/" ELSE p[i]>> \o Slashed(p, i + 1)

ExamplePath == <<"C",":","\\","U","s","e","r","s","\\","m","e","\\","x">>
ExampleWsl  == <<"/","m","n","t","/","c","/","U","s","e","r","s","/","m","e","/","x">>

\* C7: for a path <Letter>:\<rest> the conversion is /mnt/<lowercase letter>/<rest
\* with every backslash replaced by a slash> (C:\Users\me\x gives
\* /mnt/c/Users/me/x); for a path without such a prefix it is None.
C7_WslPath ==
    (call.fn = "_windows_path_to_wsl" /\ call.done) =>
        /\ HasDriveLetterPrefix(call.path) =>
              /\ call.out = <<"/","m","n","t","/">> \o <<Lower(call.path[1])>> \o <<"/">>
                                \o Slashed(call.path, 4)
              /\ \A i \in DOMAIN call.out : call.out[i] # "\\"
              /\ \E k \in DOMAIN LowerLetters : call.out[6] = LowerLetters[k]
        /\ ~HasDriveLetterPrefix(call.path) => call.out = None
        /\ call.path = ExamplePath => call.out = ExampleWsl

C7_Witness ==
    /\ call.fn = "_windows_path_to_wsl"
    /\ call.done
    /\ call.path = ExamplePath
    /\ call.out = ExampleWsl

----------------------------------------------------------------------------
(* Properties of the WSL command string *)

\* the quoted form of s from position i on, without the closing quote
RECURSIVE QuotedFrom(_, _)
QuotedFrom(s, i) ==
    IF i > Len(s) THEN <<>>
    ELSE (IF s[i] = "'" THEN <<"'", "\\", "'", "'">> ELSE <<s[i]>>) \o QuotedFrom(s, i + 1)

Quoted(s) == <<"'">> \o QuotedFrom(s, 1) \o <<"'">>

\* for each argument from position i on: a space and the quoted argument
RECURSIVE SpaceQuoted(_, _)
SpaceQuoted(as, i) ==
    IF i > Len(as) THEN <<>>
    ELSE <<" ">> \o Quoted(as[i]) \o SpaceQuoted(as, i + 1)

\* position of the first single quote of s at or after i (0 if none)
RECURSIVE ClosingQuote(_, _)
ClosingQuote(s, i) ==
    IF i > Len(s) THEN 0 ELSE IF s[i] = "'" THEN i ELSE ClosingQuote(s, i + 1)

\* the words a POSIX shell reads from s: blanks separate words, '...' is literal,
\* a backslash outside quotes makes the next character literal
RECURSIVE ShellWords(_, _, _, _, _)
ShellWords(s, i, cur, inword, acc) ==
    IF i > Len(s) THEN (IF inword THEN Append(acc, cur) ELSE acc)
    ELSE IF s[i] = " "
         THEN ShellWords(s, i + 1, <<>>, FALSE, IF inword THEN Append(acc, cur) ELSE acc)
    ELSE IF s[i] = "'" /\ ClosingQuote(s, i + 1) # 0
         THEN ShellWords(s, ClosingQuote(s, i + 1) + 1,
                         cur \o SubSeq(s, i + 1, ClosingQuote(s, i + 1) - 1), TRUE, acc)
    ELSE IF s[i] = "\\" /\ i < Len(s)
         THEN ShellWords(s, i + 2, Append(cur, s[i + 1]), TRUE, acc)
    ELSE ShellWords(s, i + 1, Append(cur, s[i]), TRUE, acc)

ItsArg    == <<"i","t","'","s">>
ItsQuoted == <<"'","i","t","'","\\","'","'","s","'">>

\* C6: the command string is "bash " + quoted path + " " + quoted argument for
\* each argument in order, quoting being '...' with each embedded ' replaced by
\* '\'' (it's becomes 'it'\''s'); read back as shell words it is bash, the path
\* and the arguments, same number and order, empty arguments included.
C6_WslQuoting ==
    (call.fn = "WslCmd" /\ call.done) =>
        /\ call.out = <<"b","a","s","h"," ">> \o Quoted(call.path) \o SpaceQuoted(call.args, 1)
        /\ ShellWords(call.out, 1, <<>>, FALSE, <<>>) = <<S_bash, call.path>> \o call.args
        /\ call.args = <<ItsArg>> =>
              SubSeq(call.out, Len(call.out) - Len(ItsQuoted) + 1, Len(call.out)) = ItsQuoted

C6_Witness ==
    /\ call.fn = "WslCmd"
    /\ call.done
    /\ call.args = <<ItsArg, <<>>>>
    /\ SubSeq(call.out, Len(call.out) - 11, Len(call.out))
          = ItsQuoted \o <<" ", "'", "'">>

====
